---- MODULE Spec2Model ----
(***************************************************************************)
(* Model of the document indexing pipeline: TextChunker (text_chunker.py), *)
(* EmbeddingGenerator (embedding_generator.py), VectorDatabase             *)
(* (vector_database.py) and process_document (index_documents.py).         *)
(*                                                                         *)
(* Three specifications share the variables:                               *)
(*   SpecStore  a client calling the VectorDatabase methods in any order   *)
(*   SpecEmbed  one call of EmbeddingGenerator.generate_batch              *)
(*   Spec       one run of process_document                                *)
(* Strings are sequences of one-character strings.  Durations: retry       *)
(* back-off in seconds, the inter-call delay in tenths of a second.        *)
(***************************************************************************)
EXTENDS Integers, Sequences, FiniteSets, TLC

VARIABLES
    \* ---- the database server and the VectorDatabase object
    table,        \* committed rows of document_chunks, ascending id
    nextId,       \* next value of the id sequence
    conns,        \* every connection opened so far: "open" or "closed"
    connection,   \* VectorDatabase.connection: 0 is None, else index in conns
    lastOp,       \* the last VectorDatabase call, its outcome and the table before it
    \* ---- EmbeddingGenerator.generate_batch
    epc,          \* position in generate_batch
    chunks,       \* its argument
    delay,        \* its argument
    embeddings,   \* the list it builds
    attempt,      \* tenacity attempt number of the running generate_single
    calls,        \* calls[i]: genai.embed_content invocations made for chunk i
    outcomes,     \* outcomes[i]: outcome of each of those invocations
    singles,      \* singles[i]: how generate_single ended for chunk i
    sleeps,       \* every time.sleep / tenacity wait so far
    batchRet,     \* the value generate_batch returned
    \* ---- process_document
    pc,           \* position in process_document
    file_path,    \* its argument
    strategy,     \* its argument
    text,         \* extracted text
    stats,        \* the statistics dictionary
    result,       \* what the caller of process_document received
    submitted,    \* chunks_data: the batch handed to save_chunks_batch
    phases,       \* the phases started so far, in order
    table0,       \* the table when the run started
    \* ---- TextChunker, called on its own
    cpc,          \* position in the chunker call
    cargs,        \* the function called and its arguments
    start,        \* start of chunk_fixed_size's while loop
    visited,      \* the slices <<start, end>> the loop has taken so far
    cret          \* the chunks built so far, and how the call ended

storeVars == <<table, nextId, conns, connection, lastOp>>
embedVars == <<epc, chunks, delay, embeddings, attempt, calls, outcomes, singles,
               sleeps, batchRet>>
procVars  == <<pc, file_path, strategy, text, stats, result, submitted, phases, table0>>
chunkVars == <<cpc, cargs, start, visited, cret>>
vars      == <<storeVars, embedVars, procVars, chunkVars>>

-----------------------------------------------------------------------------
(* Bounds of the model *)

MaxTextLen == 4     \* longest extracted text
MaxChunkLen == 1    \* longest chunk handed to generate_batch directly
MaxChunks == 2      \* longest chunk list handed to generate_batch directly
MaxBatch == 2       \* longest batch handed to save_chunks_batch directly
MaxId == 3          \* ids the sequence hands out
MaxConns == 2       \* connections opened in one behaviour
MaxSize == 3        \* largest chunk_size, overlap and max_chunk_size tried
MaxSentences == 3   \* longest sentence list handed to chunk_by_sentences
MaxDispatchLen == 2 \* longest text handed to chunk(text, strategy)

-----------------------------------------------------------------------------
(* Python string and list helpers *)

Chars == {"a", " ", "\n"}

IsSpace(c) == c \in {" ", "\n"}

SeqsUpTo(S, n) == UNION {[1..k -> S] : k \in 0..n}

Min(a, b) == IF a <= b THEN a ELSE b

Max(a, b) == IF a >= b THEN a ELSE b

\* s[i:j] with Python's 0-based half-open bounds, clipped to the string
Slice(s, i, j) ==
    LET lo == Min(Max(i, 0), Len(s))
        hi == Min(Max(j, lo), Len(s))
    IN  [k \in 1..(hi - lo) |-> s[lo + k]]

\* str.strip(): drop leading and trailing whitespace
strip(s) ==
    LET idx == {k \in 1..Len(s) : ~IsSpace(s[k])}
    IN  IF idx = {} THEN <<>>
        ELSE LET first == CHOOSE k \in idx : \A m \in idx : k <= m
                 last  == CHOOSE k \in idx : \A m \in idx : k >= m
             IN  [k \in 1..(last - first + 1) |-> s[first + k - 1]]

\* Python truthiness of "not text or not text.strip()"
IsBlank(s) == Len(s) = 0 \/ Len(strip(s)) = 0

\* zip(a, b): pairs up to the shorter of the two
\* a pairing that starts at the second element of a: zip(a[1:], b)
ZipSkipsFirst(a, b) ==
    [k \in 1..Min(Len(a) - 1, Len(b)) |-> <<a[k + 1], b[k]>>]

Zip(a, b) == [k \in 1..Min(Len(a), Len(b)) |-> <<a[k], b[k]>>]

-----------------------------------------------------------------------------
(* vector_database.py *)

Filenames == {"", "doc.pdf"}

\* Python's None where a filename is optional
None == "<None>"

STRATEGIES == {"fixed", "sentence", "paragraph"}

EMBEDDING_DIMENSION == 768

ZeroVector == [k \in 1..EMBEDDING_DIMENSION |-> 0]

\* json.dumps(embedding): the JSON text stored in the JSONB column
JsonDumps(emb) == [json |-> "array", items |-> emb]

\* is_connected(): connection is not None and not connection.closed
IsConnectedNotNone(cns, conn) == conn # 0

is_connected(cns, conn) == conn # 0 /\ cns[conn] = "open"

\* one INSERT of executemany: the row the server adds inside the transaction
InsertRow(id, rec) ==
    [id |-> id, chunk_text |-> rec[1], embedding |-> JsonDumps(rec[2]),
     filename |-> rec[3], split_strategy |-> rec[4]]

\* cursor.executemany: rows inserted in the open transaction before statement
\* number fault fails (fault = 0 or fault > Len: none fails)
ExecuteMany(nid, chunks_data, fault) ==
    LET n == IF fault \in 1..Len(chunks_data) THEN fault - 1 ELSE Len(chunks_data)
    IN  [k \in 1..n |-> InsertRow(nid + k - 1, chunks_data[k])]

\* cursor.rowcount after executemany: psycopg2 adds up the rowcount of every
\* statement, and each INSERT ... VALUES affects one row
RowCountLast(pending) == IF Len(pending) = 0 THEN 0 ELSE 1

RowCount(pending) == Len(pending)

\* a commit after which the table holds the rows of the transaction only
CommitReplaces(tbl, pending) == pending

\* connection.commit(): the rows of the transaction become part of the table
Commit(tbl, pending) == tbl \o pending

\* connection.rollback(): the rows of the transaction are discarded
RollbackKeepsInserted(tbl, pending) == tbl \o pending

Rollback(tbl, pending) == tbl

\* a save_chunks_batch whose except branch rolls back and returns 0: no "raise"
SaveSwallowsError(cns, conn, tbl, nid, chunks_data, fault) ==
    IF Len(chunks_data) = 0 \/ ~is_connected(cns, conn)
    THEN [table |-> tbl, nextId |-> nid, ret |-> 0, exc |-> "none"]
    ELSE LET pending == ExecuteMany(nid, chunks_data, fault)
         IN  IF fault \in 1..(Len(chunks_data) + 1)
             THEN [table |-> Rollback(tbl, pending), nextId |-> nid + Len(pending),
                   ret |-> 0, exc |-> "none"]
             ELSE [table |-> Commit(tbl, pending), nextId |-> nid + Len(pending),
                   ret |-> RowCount(pending), exc |-> "none"]

\* save_chunks_batch as a function of the store state and of the statement
\* that fails (0: none, k in 1..N: the k-th INSERT, N+1: the commit)
save_chunks_batch(cns, conn, tbl, nid, chunks_data, fault) ==
    IF Len(chunks_data) = 0
    THEN [table |-> tbl, nextId |-> nid, ret |-> 0, exc |-> "none"]
    ELSE IF ~is_connected(cns, conn)
    THEN [table |-> tbl, nextId |-> nid, ret |-> 0, exc |-> "RuntimeError"]
    ELSE LET pending == ExecuteMany(nid, chunks_data, fault)
             failed  == fault \in 1..(Len(chunks_data) + 1)
         IN  IF failed
             THEN [table |-> Rollback(tbl, pending), nextId |-> nid + Len(pending),
                   ret |-> 0, exc |-> "DatabaseError"]
             ELSE [table |-> Commit(tbl, pending), nextId |-> nid + Len(pending),
                   ret |-> RowCount(pending), exc |-> "none"]

\* SELECT COUNT(*) ... [WHERE filename = %s]; "if filename:" is false for
\* None and for the empty string
CountRows(tbl, filename) ==
    Cardinality({k \in 1..Len(tbl) : tbl[k].filename = filename})

get_chunk_count(cns, conn, tbl, filename, fault) ==
    IF ~is_connected(cns, conn) THEN [ret |-> 0, exc |-> "RuntimeError"]
    ELSE IF fault THEN [ret |-> 0, exc |-> "DatabaseError"]
    ELSE IF filename # None /\ filename # ""
         THEN [ret |-> CountRows(tbl, filename), exc |-> "none"]
         ELSE [ret |-> Len(tbl), exc |-> "none"]

\* the rows WHERE filename = %s selects, in table order
RECURSIVE SelectRows(_, _)
SelectRows(tbl, filename) ==
    IF Len(tbl) = 0 THEN <<>>
    ELSE IF Head(tbl).filename = filename
         THEN <<Head(tbl)>> \o SelectRows(Tail(tbl), filename)
         ELSE SelectRows(Tail(tbl), filename)

RECURSIVE RemoveRows(_, _)
RemoveRows(tbl, filename) ==
    IF Len(tbl) = 0 THEN <<>>
    ELSE IF Head(tbl).filename = filename
         THEN RemoveRows(Tail(tbl), filename)
         ELSE <<Head(tbl)>> \o RemoveRows(Tail(tbl), filename)

\* get_chunks_by_file: id, chunk_text, filename, split_strategy of the rows
\* of the file, ORDER BY id (created_at is not modelled)
get_chunks_by_file(cns, conn, tbl, filename, fault) ==
    IF ~is_connected(cns, conn) THEN [ret |-> <<>>, exc |-> "RuntimeError"]
    ELSE IF fault THEN [ret |-> <<>>, exc |-> "DatabaseError"]
    ELSE LET rows == SelectRows(tbl, filename)
         IN  [ret |-> [k \in 1..Len(rows) |->
                          [id |-> rows[k].id, chunk_text |-> rows[k].chunk_text,
                           filename |-> rows[k].filename,
                           split_strategy |-> rows[k].split_strategy]],
              exc |-> "none"]

\* delete_chunks_by_file: DELETE ... WHERE filename = %s, commit; rollback on failure
delete_chunks_by_file(cns, conn, tbl, filename, fault) ==
    IF ~is_connected(cns, conn) THEN [table |-> tbl, ret |-> 0, exc |-> "RuntimeError"]
    ELSE IF fault THEN [table |-> tbl, ret |-> 0, exc |-> "DatabaseError"]
    ELSE [table |-> RemoveRows(tbl, filename),
          ret |-> CountRows(tbl, filename), exc |-> "none"]

\* get_all_filenames: SELECT DISTINCT filename
get_all_filenames(cns, conn, tbl, fault) ==
    IF ~is_connected(cns, conn) THEN [ret |-> {}, exc |-> "RuntimeError"]
    ELSE IF fault THEN [ret |-> {}, exc |-> "DatabaseError"]
    ELSE [ret |-> {tbl[k].filename : k \in 1..Len(tbl)}, exc |-> "none"]

-----------------------------------------------------------------------------
(* A client of VectorDatabase: the methods called in any order *)

NoOp == [op |-> "none", arg |-> <<>>, fault |-> 0, ret |-> 0, exc |-> "none",
         connected |-> FALSE, before |-> <<>>]

\* the object holds a connection that is open on the server side
HoldsOpenConnection == connection # 0 /\ conns[connection] = "open"

Record(op, arg, fault, ret, exc) ==
    lastOp' = [op |-> op, arg |-> arg, fault |-> fault, ret |-> ret, exc |-> exc,
               connected |-> HoldsOpenConnection, before |-> table]

\* the records a client passes to save_chunks_batch:
\* (chunk_text, embedding, filename, strategy); the store takes any list of
\* floats as an embedding, the client's lists are short
StoreRecords == {<<t, <<0, 0>>, f, "fixed">> : t \in {<<"a">>}, f \in Filenames}

Batches == SeqsUpTo(StoreRecords, MaxBatch)

\* connect(): psycopg2.connect raises OperationalError or yields a new open
\* connection, which replaces the reference held in self.connection.  The
\* connection that was held is not closed; once unreferenced it is closed
\* when the interpreter finalizes it, at once or never (finalized says which)
connect(cns, conn, fault, finalized) ==
    IF fault THEN [conns |-> cns, connection |-> conn, exc |-> "OperationalError"]
    ELSE [conns |-> Append(IF conn # 0 /\ finalized
                           THEN [cns EXCEPT ![conn] = "closed"] ELSE cns,
                           "open"),
          connection |-> Len(cns) + 1, exc |-> "none"]

Connect ==
    /\ pc = "client"
    /\ \E fault \in BOOLEAN, finalized \in BOOLEAN :
         LET r == connect(conns, connection, fault, finalized)
         IN  /\ ~fault => Len(conns) < MaxConns
             /\ conns' = r.conns
             /\ connection' = r.connection
             /\ Record("connect", <<>>, IF fault THEN 1 ELSE 0, 0, r.exc)
    /\ UNCHANGED <<table, nextId, embedVars, procVars, chunkVars>>

\* test_connection(): connects when is_connected() is false, runs SELECT 1,
\* returns True; any exception is caught and False is returned.  fault 1 is
\* a failing connect, fault 2 a failing SELECT
TestConnection ==
    /\ pc = "client"
    /\ \E fault \in 0..2, finalized \in BOOLEAN :
         LET connects == ~is_connected(conns, connection)
             r == IF connects
                  THEN connect(conns, connection, fault = 1, finalized)
                  ELSE [conns |-> conns, connection |-> connection, exc |-> "none"]
         IN  /\ fault = 1 => connects
             /\ (connects /\ fault # 1) => Len(conns) < MaxConns
             /\ conns' = r.conns
             /\ connection' = r.connection
             /\ Record("test_connection", <<>>, fault, fault = 0, "none")
    /\ UNCHANGED <<table, nextId, embedVars, procVars, chunkVars>>

\* a close() that only forgets the connection: no "self.connection.close()"
CloseForgetsOnly(cns, conn) ==
    [conns |-> cns, connection |-> 0, released |-> 0]

\* a close() that keeps the reference: no "self.connection = None"
CloseKeepsReference(cns, conn) ==
    IF conn # 0
    THEN [conns |-> [cns EXCEPT ![conn] = "closed"], connection |-> conn,
          released |-> 1]
    ELSE [conns |-> cns, connection |-> conn, released |-> 0]

\* close(): "if self.connection:" closes it and forgets it; released is the
\* number of connection.close() calls the call made
close(cns, conn) ==
    IF conn # 0
    THEN [conns |-> [cns EXCEPT ![conn] = "closed"], connection |-> 0,
          released |-> 1]
    ELSE [conns |-> cns, connection |-> conn, released |-> 0]

Close ==
    /\ pc = "client"
    /\ conns' = close(conns, connection).conns
    /\ connection' = close(conns, connection).connection
    /\ Record("close", <<>>, 0, close(conns, connection).released, "none")
    /\ UNCHANGED <<table, nextId, embedVars, procVars, chunkVars>>

\* the server or the network drops the connection: connection.closed becomes
\* non-zero while self.connection still refers to it
ConnectionBroken ==
    /\ pc \in {"client", "save", "count"}
    /\ is_connected(conns, connection)
    /\ conns' = [conns EXCEPT ![connection] = "closed"]
    /\ UNCHANGED <<table, nextId, connection, lastOp, embedVars, procVars, chunkVars>>

SaveChunksBatch ==
    /\ pc = "client"
    /\ \E chunks_data \in Batches, fault \in 0..(MaxBatch + 1) :
         /\ fault <= Len(chunks_data) + 1
         /\ nextId + Len(chunks_data) - 1 <= MaxId
         /\ LET r == save_chunks_batch(conns, connection, table, nextId, chunks_data, fault)
            IN  /\ table' = r.table
                /\ nextId' = r.nextId
                /\ Record("save_chunks_batch", chunks_data, fault, r.ret, r.exc)
    /\ UNCHANGED <<conns, connection, embedVars, procVars, chunkVars>>

GetChunkCount ==
    /\ pc = "client"
    /\ \E filename \in Filenames \cup {None}, fault \in BOOLEAN :
         LET r == get_chunk_count(conns, connection, table, filename, fault)
         IN  Record("get_chunk_count", filename, IF fault THEN 1 ELSE 0, r.ret, r.exc)
    /\ UNCHANGED <<table, nextId, conns, connection, embedVars, procVars, chunkVars>>

GetChunksByFile ==
    /\ pc = "client"
    /\ \E filename \in Filenames, fault \in BOOLEAN :
         LET r == get_chunks_by_file(conns, connection, table, filename, fault)
         IN  Record("get_chunks_by_file", filename, IF fault THEN 1 ELSE 0, r.ret, r.exc)
    /\ UNCHANGED <<table, nextId, conns, connection, embedVars, procVars, chunkVars>>

DeleteChunksByFile ==
    /\ pc = "client"
    /\ \E filename \in Filenames, fault \in BOOLEAN :
         LET r == delete_chunks_by_file(conns, connection, table, filename, fault)
         IN  /\ table' = r.table
             /\ Record("delete_chunks_by_file", filename, IF fault THEN 1 ELSE 0, r.ret, r.exc)
    /\ UNCHANGED <<nextId, conns, connection, embedVars, procVars, chunkVars>>

GetAllFilenames ==
    /\ pc = "client"
    /\ \E fault \in BOOLEAN :
         LET r == get_all_filenames(conns, connection, table, fault)
         IN  Record("get_all_filenames", <<>>, IF fault THEN 1 ELSE 0, r.ret, r.exc)
    /\ UNCHANGED <<table, nextId, conns, connection, embedVars, procVars, chunkVars>>

NoPath == [base |-> "", ext |-> "", exists |-> FALSE]

NoStats == [filename |-> "", strategy |-> "", text_length |-> 0, chunk_count |-> 0,
            chunks_saved |-> 0, success |-> FALSE]

NoResult == [kind |-> "none", stats |-> NoStats, exc |-> "none"]

StoreIdle ==
    /\ table = <<>> /\ nextId = 1 /\ conns = <<>> /\ connection = 0
    /\ lastOp = NoOp

EmbedIdle ==
    /\ epc = "idle" /\ chunks = <<>> /\ delay = 0 /\ embeddings = <<>>
    /\ attempt = 0 /\ calls = <<>> /\ outcomes = <<>> /\ singles = <<>>
    /\ sleeps = <<>>
    /\ batchRet = <<>>

ProcIdle(p) ==
    /\ pc = p /\ file_path = NoPath /\ strategy = "" /\ text = <<>>
    /\ stats = NoStats /\ result = NoResult /\ submitted = <<>>
    /\ phases = <<>> /\ table0 = <<>>

NoArgs == [fn |-> "none", text |-> <<>>, chunk_size |-> 0, overlap |-> 0,
           sentences |-> <<>>, tokenizer_raised |-> FALSE,
           max_chunk_size |-> 0, strategy |-> ""]

NoRet == [kind |-> "none", chunks |-> <<>>, groups |-> <<>>, exc |-> "none"]

ChunkIdle ==
    /\ cpc = "idle" /\ cargs = NoArgs /\ start = 0 /\ visited = <<>>
    /\ cret = NoRet

InitStore == StoreIdle /\ EmbedIdle /\ ProcIdle("client") /\ ChunkIdle

NextStore ==
    \/ Connect
    \/ TestConnection
    \/ Close
    \/ ConnectionBroken
    \/ SaveChunksBatch
    \/ GetChunkCount
    \/ GetChunksByFile
    \/ DeleteChunksByFile
    \/ GetAllFilenames

SpecStore == InitStore /\ [][NextStore]_vars

-----------------------------------------------------------------------------
(* embedding_generator.py *)

\* @retry(stop=stop_after_attempt(3), wait=wait_exponential(multiplier=1, min=2, max=10))
STOP_AFTER_ATTEMPT == 3

WAIT_MULTIPLIER == 1

WAIT_MIN == 2

WAIT_MAX == 10

\* generate_batch(chunks, delay=0.1), in tenths of a second
DEFAULT_DELAY == 1

Delays == {0, DEFAULT_DELAY}

\* tenacity stop_after_attempt: no further attempt once this many were made
StopAfterTwo(attempt_number) == attempt_number >= STOP_AFTER_ATTEMPT - 1

stop_after_attempt(attempt_number) == attempt_number >= STOP_AFTER_ATTEMPT

\* tenacity wait_exponential: seconds to wait after failed attempt number n
wait_exponential(attempt_number) ==
    Max(Max(0, WAIT_MIN), Min(WAIT_MULTIPLIER * 2 ^ (attempt_number - 1), WAIT_MAX))

\* "if not text or not text.strip()" of generate_single
EmptyOnly(t) == Len(t) = 0

is_empty_text(t) == IsBlank(t)

\* genai.embed_content(...)['embedding'] of a successful call: a vector of the
\* model's dimension that depends on the content
embed_content(t) == [k \in 1..EMBEDDING_DIMENSION |-> Len(t)]

\* "except Exception" of generate_batch: what generate_single can raise
\* (tenacity's RetryError) is an Exception
CatchesValueErrorOnly(e) == e = "ValueError"

except_Exception(e) == e \in {"RetryError", "ValueError", "Exception"}

\* embeddings.append(embedding)
InsertFirst(embs, e) == <<e>> \o embs

append(embs, e) == Append(embs, e)

\* the chunk the for loop of generate_batch is at
cur == Len(embeddings) + 1

\* "if delay > 0: time.sleep(delay)" after a generate_single that returned
RateLimit(i) ==
    IF delay > 0 THEN <<[kind |-> "delay", chunk |-> i, dur |-> delay]>> ELSE <<>>

\* the loop moves on to the next chunk, or generate_batch returns the list
Advance(embs) ==
    /\ embeddings' = embs
    /\ attempt' = 1
    /\ IF Len(embs) >= Len(chunks)
       THEN epc' = "returned" /\ batchRet' = embs
       ELSE epc' = "single" /\ UNCHANGED batchRet

\* generate_batch up to the first generate_single: "if not chunks: return []"
GenerateBatchEnter ==
    /\ epc = "call"
    /\ IF Len(chunks) = 0
       THEN /\ epc' = "returned"
            /\ batchRet' = <<>>
            /\ UNCHANGED <<embeddings, attempt, calls, outcomes>>
       ELSE /\ epc' = "single"
            /\ embeddings' = <<>>
            /\ attempt' = 1
            /\ calls' = [k \in 1..Len(chunks) |-> 0]
            /\ outcomes' = [k \in 1..Len(chunks) |-> <<>>]
            /\ UNCHANGED batchRet
    /\ UNCHANGED <<chunks, delay, singles, sleeps, storeVars, procVars, chunkVars>>

\* generate_single on empty or whitespace-only text: zero vector, no call
GenerateSingleEmpty ==
    /\ epc = "single"
    /\ is_empty_text(chunks[cur])
    /\ singles' = Append(singles, [kind |-> "returned", attempts |-> attempt])
    /\ sleeps' = sleeps \o RateLimit(cur)
    /\ Advance(append(embeddings, ZeroVector))
    /\ UNCHANGED <<chunks, delay, calls, outcomes, storeVars, procVars, chunkVars>>

\* an attempt whose genai.embed_content call succeeds
EmbedContentSucceeds ==
    /\ epc = "single"
    /\ ~is_empty_text(chunks[cur])
    /\ calls' = [calls EXCEPT ![cur] = @ + 1]
    /\ outcomes' = [outcomes EXCEPT ![cur] = Append(@, "ok")]
    /\ singles' = Append(singles, [kind |-> "returned", attempts |-> attempt])
    /\ sleeps' = sleeps \o RateLimit(cur)
    /\ Advance(append(embeddings, embed_content(chunks[cur])))
    /\ UNCHANGED <<chunks, delay, storeVars, procVars, chunkVars>>

\* an attempt whose call fails while tenacity still retries: back-off wait,
\* then the next attempt
EmbedContentFailsRetry ==
    /\ epc = "single"
    /\ ~is_empty_text(chunks[cur])
    /\ ~stop_after_attempt(attempt)
    /\ calls' = [calls EXCEPT ![cur] = @ + 1]
    /\ outcomes' = [outcomes EXCEPT ![cur] = Append(@, "fail")]
    /\ sleeps' = Append(sleeps, [kind |-> "backoff", chunk |-> cur,
                                 dur |-> wait_exponential(attempt)])
    /\ attempt' = attempt + 1
    /\ UNCHANGED <<epc, chunks, delay, embeddings, singles, batchRet, storeVars, procVars, chunkVars>>

\* the attempt after which tenacity stops fails: generate_single raises
\* RetryError; generate_batch catches it and appends the zero vector,
\* without the rate-limiting sleep
EmbedContentFailsLast ==
    /\ epc = "single"
    /\ ~is_empty_text(chunks[cur])
    /\ stop_after_attempt(attempt)
    /\ calls' = [calls EXCEPT ![cur] = @ + 1]
    /\ outcomes' = [outcomes EXCEPT ![cur] = Append(@, "fail")]
    /\ singles' = Append(singles, [kind |-> "raised", attempts |-> attempt])
    /\ IF except_Exception("RetryError")
       THEN Advance(append(embeddings, ZeroVector))
       ELSE /\ epc' = "raised"
            /\ UNCHANGED <<embeddings, attempt, batchRet>>
    /\ UNCHANGED <<chunks, delay, sleeps, storeVars, procVars, chunkVars>>

\* the chunk lists a caller passes to generate_batch
ChunkTexts == SeqsUpTo({"a", " "}, MaxChunkLen)

ChunkLists == SeqsUpTo(ChunkTexts, MaxChunks)

InitEmbed ==
    /\ StoreIdle /\ ProcIdle("embed_client") /\ ChunkIdle
    /\ epc = "call"
    /\ chunks \in ChunkLists
    /\ delay \in Delays
    /\ embeddings = <<>> /\ attempt = 0 /\ calls = <<>> /\ outcomes = <<>>
    /\ singles = <<>> /\ sleeps = <<>> /\ batchRet = <<>>

NextEmbed ==
    \/ GenerateBatchEnter
    \/ GenerateSingleEmpty
    \/ EmbedContentSucceeds
    \/ EmbedContentFailsRetry
    \/ EmbedContentFailsLast

\* generate_batch is sequential blocking code: it keeps taking steps
SpecEmbed == InitEmbed /\ [][NextEmbed]_vars /\ WF_vars(NextEmbed)

-----------------------------------------------------------------------------
(* text_chunker.py *)

DEFAULT_CHUNK_SIZE == 500

DEFAULT_OVERLAP == 50

DEFAULT_MAX_CHUNK_SIZE == 500

\* a step that forgets the overlap: start = end
AdvanceNoOverlap(end, chunk_size, overlap) == end

\* "start = end - overlap", and "if overlap >= chunk_size: start = end"
advance(end, chunk_size, overlap) ==
    IF overlap >= chunk_size THEN end ELSE end - overlap

\* "if chunk.strip(): chunks.append(chunk.strip())"
kept(chunk) == IF Len(strip(chunk)) > 0 THEN <<strip(chunk)>> ELSE <<>>

\* the while loop of chunk_fixed_size from offset from on; it is evaluated
\* for chunk_size >= 1 only
RECURSIVE FixedLoop(_, _, _, _)
FixedLoop(t, from, chunk_size, overlap) ==
    IF ~(from < Len(t)) THEN <<>>
    ELSE LET end   == from + chunk_size
             chunk == Slice(t, from, end)
         IN  kept(chunk) \o FixedLoop(t, advance(end, chunk_size, overlap),
                                      chunk_size, overlap)

chunk_fixed_size(t, chunk_size, overlap) ==
    IF IsBlank(t) THEN <<>> ELSE FixedLoop(t, 0, chunk_size, overlap)

\* ' '.join(parts) and the general sep.join(parts)
RECURSIVE Join(_, _)
Join(parts, sep) ==
    IF Len(parts) = 0 THEN <<>>
    ELSE IF Len(parts) = 1 THEN parts[1]
    ELSE parts[1] \o sep \o Join(Tail(parts), sep)

\* a test that lets one character too many pass
WouldExceedByTwo(current_size, sentence_size, max_chunk_size) ==
    current_size + sentence_size + 1 > max_chunk_size + 1

\* "if current_size + sentence_size + 1 > max_chunk_size"
would_exceed(current_size, sentence_size, max_chunk_size) ==
    current_size + sentence_size + 1 > max_chunk_size

\* the for loop of chunk_by_sentences over the remaining sentences: the
\* groups of sentences it closes, in order; current_chunk is the open group
RECURSIVE SentenceGroups(_, _, _, _)
SentenceGroups(sentences, current_chunk, current_size, max_chunk_size) ==
    IF Len(sentences) = 0
    THEN IF Len(current_chunk) > 0 THEN <<current_chunk>> ELSE <<>>
    ELSE LET sentence      == strip(Head(sentences))
             rest          == Tail(sentences)
             sentence_size == Len(sentence)
             flushed       == IF Len(current_chunk) > 0
                              THEN <<current_chunk>> ELSE <<>>
         IN  IF sentence_size = 0
             THEN SentenceGroups(rest, current_chunk, current_size, max_chunk_size)
             ELSE IF sentence_size > max_chunk_size
             THEN flushed \o <<<<sentence>>>>
                  \o SentenceGroups(rest, <<>>, 0, max_chunk_size)
             ELSE IF would_exceed(current_size, sentence_size, max_chunk_size)
             THEN flushed \o SentenceGroups(rest, <<sentence>>, sentence_size,
                                            max_chunk_size)
             ELSE SentenceGroups(rest, Append(current_chunk, sentence),
                                 current_size + sentence_size + 1, max_chunk_size)

\* chunks.append(' '.join(current_chunk)) for every group; a long sentence
\* appended on its own is the join of a group of one
SentenceLoop(sentences, current_chunk, current_size, max_chunk_size) ==
    LET groups == SentenceGroups(sentences, current_chunk, current_size,
                                 max_chunk_size)
    IN  [k \in 1..Len(groups) |-> Join(groups[k], <<" ">>)]

\* str.split(sep) with a non-empty separator
RECURSIVE SplitAt(_, _, _, _)
SplitAt(t, sep, from, i) ==
    IF i + Len(sep) > Len(t) THEN <<Slice(t, from, Len(t))>>
    ELSE IF Slice(t, i, i + Len(sep)) = sep
         THEN <<Slice(t, from, i)>> \o SplitAt(t, sep, i + Len(sep), i + Len(sep))
         ELSE SplitAt(t, sep, from, i + 1)

split(t, sep) == SplitAt(t, sep, 0, 0)

\* str.split() without argument: the maximal runs of non-whitespace
RECURSIVE Words(_)
Words(t) ==
    IF Len(t) = 0 THEN <<>>
    ELSE IF IsSpace(t[1]) THEN Words(Tail(t))
    ELSE LET stops == {k \in 1..Len(t) : IsSpace(t[k])}
             n     == IF stops = {} THEN Len(t)
                      ELSE (CHOOSE k \in stops : \A m \in stops : k <= m) - 1
         IN  <<SubSeq(t, 1, n)>> \o Words(SubSeq(t, n + 1, Len(t)))

\* nltk.sent_tokenize is an external sentence splitter: any cutting of the
\* text into consecutive pieces is a possible answer
Pieces(t, cuts) ==
    LET marks == cuts \cup {0, Len(t)}
        Starts == {c \in marks : c < Len(t)}
        NextMark(c) == CHOOSE d \in marks : d > c /\ \A e \in marks : e > c => d <= e
        Ordered == CHOOSE q \in [1..Cardinality(Starts) -> Starts] :
                      \A a, b \in 1..Cardinality(Starts) : a < b => q[a] < q[b]
    IN  [k \in 1..Cardinality(Starts) |-> Slice(t, Ordered[k], NextMark(Ordered[k]))]

Tokenizations(t) == {Pieces(t, cuts) : cuts \in SUBSET (1..(Len(t) - 1))}

\* the fallback when the tokenizer raises:
\* [s.strip() + '.' for s in text.split('. ') if s.strip()]
RECURSIVE FallbackSentences(_)
FallbackSentences(parts) ==
    IF Len(parts) = 0 THEN <<>>
    ELSE IF Len(strip(Head(parts))) > 0
         THEN <<strip(Head(parts)) \o <<".">>>> \o FallbackSentences(Tail(parts))
         ELSE FallbackSentences(Tail(parts))

\* the sentences the loop runs over, given what the tokenizer did: sentences
\* is its answer, tokenizer_raised says that it raised instead
tokenize(t, sentences, tokenizer_raised) ==
    IF tokenizer_raised THEN FallbackSentences(split(t, <<".", " ">>))
    ELSE sentences

chunk_by_sentences(t, sentences, tokenizer_raised, max_chunk_size) ==
    IF IsBlank(t) THEN <<>>
    ELSE SentenceLoop(tokenize(t, sentences, tokenizer_raised),
                      <<>>, 0, max_chunk_size)

\* the loop of chunk_by_paragraphs: ' '.join(para.split()), empty ones dropped
RECURSIVE ParagraphLoop(_)
ParagraphLoop(paragraphs) ==
    IF Len(paragraphs) = 0 THEN <<>>
    ELSE LET cleaned == Join(Words(Head(paragraphs)), <<" ">>)
         IN  (IF Len(cleaned) > 0 THEN <<cleaned>> ELSE <<>>)
             \o ParagraphLoop(Tail(paragraphs))

chunk_by_paragraphs(t) ==
    IF IsBlank(t) THEN <<>> ELSE ParagraphLoop(split(t, <<"\n", "\n">>))

\* a check that lets every strategy tag pass
RecognizesAll(strat) == TRUE

\* "strategy not in self.STRATEGIES" is false
recognized(strat) == strat \in STRATEGIES

\* chunk(text, strategy) with the default sizes, for a recognized strategy
chunk(t, strat, sentences, tokenizer_raised) ==
    IF strat = "fixed" THEN chunk_fixed_size(t, DEFAULT_CHUNK_SIZE, DEFAULT_OVERLAP)
    ELSE IF strat = "sentence"
    THEN chunk_by_sentences(t, sentences, tokenizer_raised, DEFAULT_MAX_CHUNK_SIZE)
    ELSE chunk_by_paragraphs(t)

\* ---- the chunker called on its own

Sizes == 0..MaxSize

FixedTexts == SeqsUpTo({"a", " "}, MaxTextLen)

\* sentences as a tokenizer hands them over: with inner and outer blanks
SentenceAtoms == {<<>>, <<"a">>, <<"a", "a">>, <<"a", " ", "a">>, <<" ", "a">>}

SentenceLists == SeqsUpTo(SentenceAtoms, MaxSentences)

DispatchTexts == SeqsUpTo(Chars, MaxDispatchLen)

StrategyTags == STRATEGIES \cup {"bogus", "", "Fixed"}

FixedCalls ==
    {[NoArgs EXCEPT !.fn = "chunk_fixed_size", !.text = t,
                    !.chunk_size = c, !.overlap = o] :
        t \in FixedTexts, c \in Sizes, o \in Sizes}

SentenceCalls ==
    {[NoArgs EXCEPT !.fn = "chunk_by_sentences", !.text = Join(ss, <<" ">>),
                    !.sentences = ss, !.max_chunk_size = m] :
        ss \in SentenceLists, m \in Sizes}

DispatchCalls ==
    UNION {{[NoArgs EXCEPT !.fn = "chunk", !.text = t, !.strategy = st,
                           !.sentences = ss, !.tokenizer_raised = r] :
               st \in StrategyTags, ss \in Tokenizations(t), r \in BOOLEAN} :
           t \in DispatchTexts}

\* the loop is followed for at most MaxSteps iterations
MaxSteps == MaxTextLen + 1

\* chunk_fixed_size up to the while loop
FixedEnter ==
    /\ cpc = "call" /\ cargs.fn = "chunk_fixed_size"
    /\ IF IsBlank(cargs.text)
       THEN /\ cpc' = "returned"
            /\ cret' = [cret EXCEPT !.kind = "returned"]
       ELSE /\ cpc' = "loop"
            /\ UNCHANGED cret
    /\ start' = 0
    /\ UNCHANGED <<cargs, visited, storeVars, embedVars, procVars>>

\* one iteration of the while loop
FixedStep ==
    /\ cpc = "loop"
    /\ start < Len(cargs.text)
    /\ Len(visited) < MaxSteps
    /\ LET end == start + cargs.chunk_size
       IN  /\ visited' = Append(visited, <<start, end>>)
           /\ cret' = [cret EXCEPT
                         !.chunks = @ \o kept(Slice(cargs.text, start, end))]
           /\ start' = advance(end, cargs.chunk_size, cargs.overlap)
    /\ UNCHANGED <<cpc, cargs, storeVars, embedVars, procVars>>

\* the loop condition is false: "return chunks"
FixedReturn ==
    /\ cpc = "loop"
    /\ ~(start < Len(cargs.text))
    /\ cpc' = "returned"
    /\ cret' = [cret EXCEPT !.kind = "returned"]
    /\ UNCHANGED <<cargs, start, visited, storeVars, embedVars, procVars>>

\* chunk_by_sentences as one step
SentenceCall ==
    /\ cpc = "call" /\ cargs.fn = "chunk_by_sentences"
    /\ cpc' = "returned"
    /\ cret' = [kind   |-> "returned",
                chunks |-> chunk_by_sentences(cargs.text, cargs.sentences,
                               cargs.tokenizer_raised, cargs.max_chunk_size),
                groups |-> IF IsBlank(cargs.text) THEN <<>>
                           ELSE SentenceGroups(
                                    tokenize(cargs.text, cargs.sentences,
                                             cargs.tokenizer_raised),
                                    <<>>, 0, cargs.max_chunk_size),
                exc    |-> "none"]
    /\ UNCHANGED <<cargs, start, visited, storeVars, embedVars, procVars>>

\* chunk(text, strategy) as one step
DispatchCall ==
    /\ cpc = "call" /\ cargs.fn = "chunk"
    /\ IF ~recognized(cargs.strategy)
       THEN /\ cpc' = "raised"
            /\ cret' = [NoRet EXCEPT !.kind = "raised", !.exc = "ValueError"]
       ELSE /\ cpc' = "returned"
            /\ cret' = [NoRet EXCEPT !.kind = "returned",
                          !.chunks = chunk(cargs.text, cargs.strategy,
                                           cargs.sentences, cargs.tokenizer_raised)]
    /\ UNCHANGED <<cargs, start, visited, storeVars, embedVars, procVars>>

\* a TextChunker that has not been called yet
InitChunk == StoreIdle /\ EmbedIdle /\ ProcIdle("chunker_client") /\ ChunkIdle

\* a call of the chunker with arguments of the caller's choice
ChunkerCall ==
    /\ pc = "chunker_client"
    /\ cpc = "idle"
    /\ cpc' = "call"
    /\ cargs' \in FixedCalls \cup SentenceCalls \cup DispatchCalls
    /\ UNCHANGED <<start, visited, cret, storeVars, embedVars, procVars>>

NextChunk ==
    \/ ChunkerCall
    \/ FixedEnter
    \/ FixedStep
    \/ FixedReturn
    \/ SentenceCall
    \/ DispatchCall

\* the chunker is sequential code: it keeps taking steps
SpecChunk == InitChunk /\ [][NextChunk]_vars /\ WF_vars(NextChunk)

-----------------------------------------------------------------------------
(* index_documents.py: process_document *)

\* the paths handed to process_document; basename and extension are fields
Paths == {[base |-> "doc.pdf",   ext |-> ".pdf", exists |-> TRUE],
          [base |-> "gone.pdf",  ext |-> ".pdf", exists |-> FALSE],
          [base |-> "notes.txt", ext |-> ".txt", exists |-> TRUE]}

basename(p) == p.base

SUPPORTED_EXTENSIONS == {".pdf", ".docx"}

\* the texts an extraction can yield
Texts == SeqsUpTo(Chars, MaxTextLen)

\* what DocumentExtractor.extract raises before it reads the document
extract_error(p) ==
    IF ~p.exists THEN "FileNotFoundError"
    ELSE IF p.ext \notin SUPPORTED_EXTENSIONS THEN "ValueError"
    ELSE "none"

\* "if not text.strip()" of process_document
TextIsEmptyString(t) == Len(t) = 0

text_is_empty(t) == Len(strip(t)) = 0

\* the except clauses of process_document log and re-raise: the caller gets
\* the exception, the statistics dictionary is lost
ReturnStatsOnException(st, e) == [kind |-> "returned", stats |-> st, exc |-> "none"]

reraise(st, e) == [kind |-> "raised", stats |-> NoStats, exc |-> e]

\* "return stats"
return(st) == [kind |-> "returned", stats |-> st, exc |-> "none"]

\* Step 1: extract the text; return the statistics if it is empty after strip()
ExtractText ==
    /\ pc = "extract"
    /\ phases' = Append(phases, "ExtractText")
    /\ IF extract_error(file_path) # "none"
       THEN /\ result' = reraise(stats, extract_error(file_path))
            /\ pc' = IF result'.kind = "raised" THEN "failed" ELSE "returned"
            /\ UNCHANGED <<text, stats>>
       ELSE \E corrupt \in BOOLEAN, t \in Texts :
              IF corrupt
              THEN /\ result' = reraise(stats, "Exception")
                   /\ pc' = IF result'.kind = "raised" THEN "failed" ELSE "returned"
                   /\ UNCHANGED <<text, stats>>
              ELSE /\ text' = t
                   /\ stats' = [stats EXCEPT !.text_length = Len(t)]
                   /\ IF text_is_empty(t)
                      THEN result' = return(stats') /\ pc' = "returned"
                      ELSE pc' = "chunk" /\ UNCHANGED result
    /\ UNCHANGED <<file_path, strategy, submitted, table0, storeVars, embedVars, chunkVars>>

\* Step 2: chunk the text; ValueError for an unknown strategy; return the
\* statistics if there are no chunks
ChunkText ==
    /\ pc = "chunk"
    /\ phases' = Append(phases, "Chunk")
    /\ IF ~recognized(strategy)
       THEN /\ result' = reraise(stats, "ValueError")
            /\ pc' = IF result'.kind = "raised" THEN "failed" ELSE "returned"
            /\ UNCHANGED <<chunks, stats>>
       ELSE \E sentences \in Tokenizations(text), tokenizer_raised \in BOOLEAN :
              /\ chunks' = chunk(text, strategy, sentences, tokenizer_raised)
              /\ stats' = [stats EXCEPT !.chunk_count = Len(chunks')]
              /\ IF Len(chunks') = 0
                 THEN result' = return(stats') /\ pc' = "returned"
                 ELSE pc' = "embed" /\ UNCHANGED result
    /\ UNCHANGED <<file_path, strategy, text, submitted, table0, storeVars,
                   epc, delay, embeddings, attempt, calls, outcomes, singles,
                   sleeps, batchRet, chunkVars>>

\* Step 3: embedding_gen.generate_batch(chunks), with the default delay
EmbedStart ==
    /\ pc = "embed"
    /\ phases' = Append(phases, "Embed")
    /\ pc' = "embedding"
    /\ epc' = "call"
    /\ delay' = DEFAULT_DELAY
    /\ UNCHANGED <<file_path, strategy, text, stats, result, submitted, table0,
                   storeVars, chunks, embeddings, attempt, calls, outcomes,
                   singles, sleeps, batchRet, chunkVars>>

\* Step 4: "with VectorDatabase(config) as db": __enter__ connects
PersistEnter ==
    /\ pc = "embedding" /\ epc = "returned"
    /\ phases' = Append(phases, "Persist")
    /\ \E fault \in BOOLEAN :
         IF fault
         THEN /\ Record("connect", <<>>, 1, 0, "OperationalError")
              /\ result' = reraise(stats, "OperationalError")
              /\ pc' = IF result'.kind = "raised" THEN "failed" ELSE "returned"
              /\ UNCHANGED <<conns, connection>>
         ELSE /\ Len(conns) < MaxConns
              /\ conns' = Append(conns, "open")
              /\ connection' = Len(conns) + 1
              /\ Record("connect", <<>>, 0, 0, "none")
              /\ pc' = "save"
              /\ UNCHANGED result
    /\ UNCHANGED <<file_path, strategy, text, stats, submitted, table0, table, nextId,
                   embedVars, chunkVars>>

\* chunks_data = [(chunk, emb, filename, strategy) for chunk, emb in zip(...)]
prepare(chs, embs, filename, strat) ==
    LET z == Zip(chs, embs)
    IN  [k \in 1..Len(z) |-> <<z[k][1], z[k][2], filename, strat>>]

\* db.save_chunks_batch(chunks_data); an exception leaves the with block
\* through __exit__, which closes the connection, and is re-raised
PersistSave ==
    /\ pc = "save"
    /\ submitted' = prepare(chunks, batchRet, basename(file_path), strategy)
    /\ \E fault \in 0..(Len(submitted') + 1) :
         LET r == save_chunks_batch(conns, connection, table, nextId, submitted', fault)
         IN  /\ nextId + Len(submitted') - 1 <= MaxId
             /\ table' = r.table
             /\ nextId' = r.nextId
             /\ Record("save_chunks_batch", submitted', fault, r.ret, r.exc)
             /\ IF r.exc # "none"
                THEN /\ conns' = close(conns, connection).conns
                     /\ connection' = close(conns, connection).connection
                     /\ result' = reraise(stats, r.exc)
                     /\ pc' = IF result'.kind = "raised" THEN "failed" ELSE "returned"
                     /\ UNCHANGED stats
                ELSE /\ stats' = [stats EXCEPT !.chunks_saved = r.ret]
                     /\ pc' = "count"
                     /\ UNCHANGED <<conns, connection, result>>
    /\ UNCHANGED <<file_path, strategy, text, phases, table0, embedVars, chunkVars>>

\* db.get_chunk_count(filename), the end of the with block (__exit__ closes
\* the connection), stats['success'] = True and "return stats"
PersistCount ==
    /\ pc = "count"
    /\ \E fault \in BOOLEAN :
         LET r == get_chunk_count(conns, connection, table, basename(file_path), fault)
         IN  /\ Record("get_chunk_count", basename(file_path),
                       IF fault THEN 1 ELSE 0, r.ret, r.exc)
             /\ conns' = close(conns, connection).conns
             /\ connection' = close(conns, connection).connection
             /\ IF r.exc # "none"
                THEN /\ result' = reraise(stats, r.exc)
                     /\ pc' = IF result'.kind = "raised" THEN "failed" ELSE "returned"
                     /\ UNCHANGED <<stats, phases>>
                ELSE /\ stats' = [stats EXCEPT !.success = TRUE]
                     /\ result' = return(stats')
                     /\ phases' = Append(phases, "Done")
                     /\ pc' = "returned"
    /\ UNCHANGED <<file_path, strategy, text, submitted, table0, table, nextId, embedVars, chunkVars>>

\* the tables a run can find: empty, or a row of an earlier run on doc.pdf
InitTables ==
    {<<>>, <<InsertRow(1, <<<<"a">>, embed_content(<<"a">>), "doc.pdf", "fixed">>)>>}

Init ==
    /\ table \in InitTables
    /\ nextId = Len(table) + 1
    /\ table0 = table
    /\ conns = <<>> /\ connection = 0 /\ lastOp = NoOp
    /\ EmbedIdle /\ ChunkIdle
    /\ pc = "extract"
    /\ file_path \in Paths
    /\ strategy \in STRATEGIES \cup {"bogus"}
    /\ text = <<>>
    /\ stats = [filename |-> basename(file_path), strategy |-> strategy,
                text_length |-> 0, chunk_count |-> 0, chunks_saved |-> 0,
                success |-> FALSE]
    /\ result = NoResult /\ submitted = <<>> /\ phases = <<>>

\* the chunker never yields a blank chunk nor an empty list to embed, so
\* generate_single's short cut for empty text does not occur in a run
Next ==
    \/ ExtractText
    \/ ChunkText
    \/ EmbedStart
    \/ GenerateBatchEnter
    \/ EmbedContentSucceeds
    \/ EmbedContentFailsRetry
    \/ EmbedContentFailsLast
    \/ PersistEnter
    \/ ConnectionBroken
    \/ PersistSave
    \/ PersistCount

\* process_document is sequential blocking code: it keeps taking steps
Spec == Init /\ [][Next]_vars /\ WF_vars(Next)

-----------------------------------------------------------------------------
(* Properties of the store, checked under SpecStore *)

ContractOps == {"save_chunks_batch", "get_chunk_count", "get_chunks_by_file",
                "delete_chunks_by_file", "get_all_filenames"}

\* the rows a committed batch adds to the table that was there before
RowsOf(before, batch, tbl) ==
    /\ Len(tbl) = Len(before) + Len(batch)
    /\ \A k \in 1..Len(before) : tbl[k] = before[k]
    /\ \A k \in 1..Len(batch) :
         /\ tbl[Len(before) + k].chunk_text = batch[k][1]
         /\ tbl[Len(before) + k].embedding = JsonDumps(batch[k][2])
         /\ tbl[Len(before) + k].filename = batch[k][3]
         /\ tbl[Len(before) + k].split_strategy = batch[k][4]

\* C1: save_chunks_batch is atomic per call.  On a connected store and a batch
\* of N >= 1 records, a failure of any INSERT (the last one included) or of the
\* commit raises and leaves the table exactly as it was before the call; with
\* no failure the call returns N and the table is the old one followed by the
\* N rows of the batch.
C1_SaveBatchAtomic ==
    (lastOp.op = "save_chunks_batch" /\ lastOp.connected /\ Len(lastOp.arg) >= 1) =>
        IF lastOp.fault \in 1..(Len(lastOp.arg) + 1)
        THEN lastOp.exc = "DatabaseError" /\ table = lastOp.before
        ELSE /\ lastOp.exc = "none"
             /\ lastOp.ret = Len(lastOp.arg)
             /\ RowsOf(lastOp.before, lastOp.arg, table)

\* a two-record batch whose last INSERT failed, on a table that had rows
C1_Witness ==
    /\ lastOp.op = "save_chunks_batch" /\ lastOp.connected
    /\ Len(lastOp.arg) = 2 /\ lastOp.fault = 2
    /\ lastOp.exc = "DatabaseError"
    /\ Len(lastOp.before) >= 1

\* C6: re-indexing is idempotent.  On a connected store, a successful
\* delete_chunks_by_file(f) directly followed by a successful
\* save_chunks_batch(new) whose records all carry filename f leaves
\* get_chunk_count(f) equal to len(new), for every filename f.
C6_ReindexIdempotent ==
    [][ ( /\ lastOp.op = "delete_chunks_by_file" /\ lastOp.exc = "none"
          /\ lastOp'.op = "save_chunks_batch" /\ lastOp'.exc = "none"
          /\ \A k \in 1..Len(lastOp'.arg) : lastOp'.arg[k][3] = lastOp.arg
          /\ HoldsOpenConnection' )
        => get_chunk_count(conns', connection', table', lastOp.arg, FALSE)
             = [ret |-> Len(lastOp'.arg), exc |-> "none"] ]_vars

\* C10 as stated: every contract operation called without an active
\* connection raises the not-connected error and leaves the table unchanged.
C10_NotConnectedAlways ==
    (lastOp.op \in ContractOps /\ ~lastOp.connected) =>
        lastOp.exc = "RuntimeError" /\ table = lastOp.before

\* C10 amended: without an active connection every contract operation leaves
\* the table unchanged and raises the not-connected error, except
\* save_chunks_batch of an empty batch, which returns 0 without raising.
C10_NotConnected ==
    (lastOp.op \in ContractOps /\ ~lastOp.connected) =>
        /\ table = lastOp.before
        /\ IF lastOp.op = "save_chunks_batch" /\ Len(lastOp.arg) = 0
           THEN lastOp.exc = "none" /\ lastOp.ret = 0
           ELSE lastOp.exc = "RuntimeError"

\* a delete called on a store whose connection object is still referenced but
\* was dropped, with rows in the table
C10_Witness ==
    /\ lastOp.op = "delete_chunks_by_file" /\ ~lastOp.connected
    /\ connection # 0
    /\ lastOp.exc = "RuntimeError"
    /\ CountRows(lastOp.before, lastOp.arg) >= 1

-----------------------------------------------------------------------------
(* Properties of generate_batch and generate_single, checked under SpecEmbed *)

AllFailed(o) == Len(o) >= 1 /\ \A k \in 1..Len(o) : o[k] = "fail"

SomeOk(o) == \E k \in 1..Len(o) : o[k] = "ok"

\* C2: generate_batch always returns normally, with one embedding per input
\* chunk: it eventually returns, no exception ever leaves it, and the list it
\* returns is as long as the list of chunks, whatever the chunks and whatever
\* the embedding service calls do.
C2_BatchReturnsAll ==
    /\ <>(epc = "returned")
    /\ [](epc # "raised")
    /\ [](epc = "returned" => Len(batchRet) = Len(chunks))

\* a returned batch with an empty chunk and a chunk whose every call failed
C2_Witness ==
    /\ epc = "returned"
    /\ Len(chunks) = 2
    /\ \E i \in 1..2 : is_empty_text(chunks[i])
    /\ \E i \in 1..2 : AllFailed(outcomes[i]) /\ singles[i].kind = "raised"

\* C3: order is kept and substitution is per item.  Position i of the output
\* holds the service's vector for chunk i when one of its attempts succeeded
\* and the zero vector when generate_single failed for it; the chunks after a
\* failed one are still processed, and a position once written never changes.
C3_OrderAndSubstitution ==
    /\ [](\A i \in 1..Len(embeddings) :
            /\ SomeOk(outcomes[i]) => embeddings[i] = embed_content(chunks[i])
            /\ singles[i].kind = "raised" => embeddings[i] = ZeroVector)
    /\ [](epc = "returned" =>
            /\ batchRet = embeddings
            /\ \A i \in 1..Len(chunks) :
                 i <= Len(batchRet) /\ (SomeOk(outcomes[i]) \/ singles[i].kind = "raised"
                                         \/ is_empty_text(chunks[i])))
    /\ [][\A i \in 1..Len(embeddings) :
            i <= Len(embeddings') /\ embeddings'[i] = embeddings[i]]_vars

\* the first chunk failed for good, the second succeeded
C3_Witness ==
    /\ epc = "returned"
    /\ Len(chunks) = 2
    /\ singles[1].kind = "raised" /\ batchRet[1] = ZeroVector
    /\ SomeOk(outcomes[2]) /\ batchRet[2] = embed_content(chunks[2])

C5_EmptyTextShortCircuit ==
    \A i \in 1..Len(singles) :
        IsBlank(chunks[i]) =>
            /\ singles[i] = [kind |-> "returned", attempts |-> 1]
            /\ embeddings[i] = ZeroVector
            /\ Len(embeddings[i]) = 768
            /\ calls[i] = 0 /\ outcomes[i] = <<>>
            /\ \A k \in 1..Len(sleeps) :
                 sleeps[k].chunk = i => sleeps[k].kind # "backoff"

\* a whitespace-only chunk processed after the service had failed
C5_Witness ==
    /\ Len(singles) = 2
    /\ AllFailed(outcomes[1])
    /\ Len(chunks[2]) >= 1 /\ IsBlank(chunks[2])
    /\ embeddings[2] = ZeroVector

-----------------------------------------------------------------------------
(* Properties of process_document, checked under Spec *)

AllPhases == <<"ExtractText", "Chunk", "Embed", "Persist", "Done">>

RunEnded == pc \in {"returned", "failed"}

\* the extraction, respectively the segmentation, came back with a value
Extracted == Len(phases) >= 1 /\ ~(Len(phases) = 1 /\ result.kind = "raised")

Chunked == Len(phases) >= 2 /\ ~(Len(phases) = 2 /\ result.kind = "raised")

NoEmbeddingCall == epc = "idle" /\ calls = <<>> /\ embeddings = <<>>

NoStoreOperation ==
    conns = <<>> /\ connection = 0 /\ lastOp = NoOp /\ table = table0 /\ submitted = <<>>

ReturnedZeroProgress ==
    /\ pc = "returned"
    /\ result.kind = "returned" /\ result.stats = stats
    /\ ~result.stats.success /\ result.stats.chunks_saved = 0

\* C7: the success flag is true only if every phase completed and the count
\* save_chunks_batch reported equals the number of chunks submitted to it;
\* a run whose reported count differs from its chunk count has success false.
C7_SuccessOnlyIfAllPersisted ==
    /\ stats.success => (pc = "returned" /\ result.kind = "returned" /\ result.stats = stats)
    /\ (result.kind = "returned" /\ result.stats.success) =>
         /\ phases = AllPhases
         /\ epc = "returned" /\ Len(batchRet) = Len(chunks)
         /\ Len(submitted) = Len(chunks)
         /\ result.stats.chunk_count = Len(chunks)
         /\ result.stats.chunks_saved = Len(submitted)
    /\ (result.kind = "returned" /\ result.stats.chunks_saved # result.stats.chunk_count)
         => ~result.stats.success

\* a successful run that submitted two chunks to a table that had a row
C7_Witness ==
    /\ result.kind = "returned" /\ result.stats.success
    /\ Len(submitted) = 2
    /\ Len(table0) = 1

\* C8: a run whose extracted text is empty after trimming performs no
\* segmentation, no embedding call and no store operation; a run whose
\* segmentation yields no chunk performs no embedding call and no store
\* operation; both return the statistics with success false and 0 saved.
C8_Guards ==
    /\ (Extracted /\ Len(strip(text)) = 0) =>
         /\ phases = <<"ExtractText">>
         /\ chunks = <<>>
         /\ NoEmbeddingCall /\ NoStoreOperation
         /\ ReturnedZeroProgress
         /\ result.stats.text_length = Len(text) /\ result.stats.chunk_count = 0
    /\ (Chunked /\ Len(chunks) = 0) =>
         /\ phases = <<"ExtractText", "Chunk">>
         /\ NoEmbeddingCall /\ NoStoreOperation
         /\ ReturnedZeroProgress
         /\ result.stats.chunk_count = 0

\* a run on a whitespace-only text of two characters
C8_Witness ==
    /\ Extracted /\ Len(text) = 2 /\ Len(strip(text)) = 0
    /\ pc = "returned" /\ result.stats.text_length = 2
    /\ Len(table0) = 1

\* C9 as stated: when a phase fails after earlier phases completed, the
\* caller still receives the statistics accumulated so far, with the
\* character count and the chunk count and success false.
C9_StatsReturnedOnFailure ==
    (RunEnded /\ Len(phases) >= 2 /\ ~stats.success) =>
        /\ result.kind = "returned"
        /\ result.stats = stats
        /\ result.stats.text_length = Len(text)
        /\ result.stats.chunk_count = Len(chunks)

\* C9 amended: the statistics reach the caller only when the run returns:
\* after the last phase with success true, or with success false at one of
\* the two guards (empty text, no chunks).  When a phase fails with an error
\* the error is re-raised to the caller, who receives no statistics.
C9_StatsOnlyWhenReturned ==
    RunEnded =>
        IF result.kind = "returned"
        THEN /\ pc = "returned"
             /\ result.stats = stats
             /\ result.stats.text_length = Len(text)
             /\ result.stats.chunk_count = Len(chunks)
             /\ \/ result.stats.success
                \/ Len(strip(text)) = 0
                \/ Len(chunks) = 0
        ELSE /\ pc = "failed"
             /\ result.kind = "raised" /\ result.exc # "none"
             /\ result.stats = NoStats
             /\ ~stats.success

\* Persist failed in save_chunks_batch after two chunks were embedded: the
\* counts are in the dictionary, the caller got the exception
C9_Witness ==
    /\ pc = "failed"
    /\ phases = <<"ExtractText", "Chunk", "Embed", "Persist">>
    /\ lastOp.op = "save_chunks_batch" /\ lastOp.exc = "DatabaseError"
    /\ stats.text_length = Len(text) /\ stats.chunk_count = 2
    /\ result.kind = "raised"


\* ---------------------------------------------------------------------
\* Connection lifecycle
\* ---------------------------------------------------------------------

NoConnectionHeld ==
    /\ connection = 0
    /\ \A i \in 1..Len(conns) : conns[i] = "closed"

\* C11: the connection the with block of process_document acquired is
\* released when the block is left, by a return as by an exception of
\* save_chunks_batch or get_chunk_count: a run that has ended holds no
\* connection and has left none open, and a step that makes the store
\* forget its connection has closed it
C11_ScopedConnectionReleased ==
    /\ [](RunEnded => NoConnectionHeld)
    /\ [][(connection # 0 /\ connection' = 0) =>
            conns'[connection] = "closed"]_vars

\* a save that raised inside the with block, on a live connection
C11_Witness ==
    /\ pc = "failed"
    /\ lastOp.op = "save_chunks_batch"
    /\ lastOp.exc # "none"
    /\ lastOp.connected
    /\ Len(conns) = 1
    /\ NoConnectionHeld

\* C12: close never raises and always ends with no connection held; it
\* closes the held connection once and touches no other; on a store that
\* holds none (never opened, or closed before) it releases nothing and
\* changes nothing, so a second close equals a single one
C12_CloseIdempotent ==
    /\ [](LET c1 == close(conns, connection)
              c2 == close(c1.conns, c1.connection)
          IN  /\ c1.connection = 0
              /\ connection # 0 =>
                     c1.conns[connection] = "closed" /\ c1.released = 1
              /\ connection = 0 => c1.conns = conns /\ c1.released = 0
              /\ \A i \in 1..Len(conns) :
                     i # connection => c1.conns[i] = conns[i]
              /\ c2.conns = c1.conns
              /\ c2.connection = c1.connection
              /\ c2.released = 0
              /\ lastOp.op = "close" =>
                     /\ lastOp.exc = "none"
                     /\ connection = 0
                     /\ table = lastOp.before)
    /\ [][(lastOp'.op = "close" /\ connection = 0) =>
            /\ conns' = conns
            /\ connection' = 0
            /\ table' = table
            /\ lastOp'.ret = 0]_vars

\* a close on a store that was opened and closed before
C12_Witness ==
    /\ lastOp.op = "close"
    /\ lastOp.ret = 0
    /\ Len(conns) >= 1
    /\ NoConnectionHeld


\* ---------------------------------------------------------------------
\* Records submitted to the store
\* ---------------------------------------------------------------------

\* save_chunks_batch has been called in this run
SaveCalled == lastOp.op \in {"save_chunks_batch", "get_chunk_count"}

\* C13: the batch handed to save_chunks_batch holds one record per chunk of
\* the segmentation, in order, each with the chunk and an embedding of 768
\* values: the vector the service returned for that chunk, or the zero
\* vector when its embedding failed
C13_EveryChunkSubmittedOnce ==
    SaveCalled =>
        /\ Len(submitted) = Len(chunks)
        /\ Len(singles) = Len(chunks)
        /\ \A k \in 1..Len(submitted) :
               /\ submitted[k][1] = chunks[k]
               /\ Len(submitted[k][2]) = EMBEDDING_DIMENSION
               /\ singles[k].kind = "raised" => submitted[k][2] = ZeroVector
               /\ singles[k].kind = "returned" =>
                      submitted[k][2] = embed_content(chunks[k])

\* two chunks submitted, the first with the placeholder
C13_Witness ==
    /\ SaveCalled
    /\ Len(submitted) = 2
    /\ singles[1].kind = "raised"
    /\ singles[2].kind = "returned"
    /\ submitted[1][2] = ZeroVector
    /\ submitted[2][2] # ZeroVector


\* ---------------------------------------------------------------------
\* Fixed-size chunking
\* ---------------------------------------------------------------------

CeilDiv(a, b) == (a + b - 1) \div b

FixedCall == cargs.fn = "chunk_fixed_size"

\* C14: with chunk_size > overlap >= 0 the start offsets of the slices go
\* up by chunk_size - overlap from one iteration to the next; the loop
\* condition holds only while fewer than ceil(len(text) / (chunk_size -
\* overlap)) iterations have been made, so the loop ends within that many;
\* and no more chunks than that are returned
C14_FixedLoopBound ==
    (FixedCall /\ cargs.chunk_size > cargs.overlap /\ cargs.overlap >= 0) =>
        LET step  == cargs.chunk_size - cargs.overlap
            bound == CeilDiv(Len(cargs.text), step)
        IN  /\ \A k \in 1..Len(visited) :
                   /\ visited[k][1] = (k - 1) * step
                   /\ \A j \in 1..(k - 1) : visited[j][1] < visited[k][1]
            /\ cpc = "loop" => start = Len(visited) * step
            /\ (cpc = "loop" /\ start < Len(cargs.text)) =>
                   Len(visited) < bound /\ Len(visited) < MaxSteps
            /\ Len(visited) <= bound
            /\ Len(cret.chunks) <= bound

\* a text of four characters cut with overlap in as many iterations as the
\* bound allows
C14_Witness ==
    /\ FixedCall /\ cpc = "returned"
    /\ cargs.chunk_size > cargs.overlap /\ cargs.overlap > 0
    /\ Len(visited) >= 3
    /\ Len(visited) = CeilDiv(Len(cargs.text), cargs.chunk_size - cargs.overlap)
    /\ Len(cret.chunks) = Len(visited)


\* a call with overlap >= chunk_size on a non-empty text
Degenerate ==
    FixedCall /\ cargs.overlap >= cargs.chunk_size /\ Len(cargs.text) > 0

Covered ==
    \A p \in 0..(Len(cargs.text) - 1) :
        \E k \in 1..Len(visited) : visited[k][1] <= p /\ p < visited[k][2]

\* C15: with overlap >= chunk_size, whatever chunk_size is, every iteration
\* of the loop moves start forward, by chunk_size; the loop ends; and when it
\* has ended every character position of the text lies in a slice it took
C15_DegenerateOverlapProgress ==
    /\ [][(Degenerate /\ cpc = "loop" /\ visited' # visited) =>
            (start' > start /\ start' = start + cargs.chunk_size)]_vars
    /\ [](Degenerate /\ cpc = "returned" /\ ~IsBlank(cargs.text) => Covered)
    /\ (Degenerate /\ cpc = "loop") ~> (cpc = "returned")


\* ---------------------------------------------------------------------
\* Sentence chunking
\* ---------------------------------------------------------------------

SentencesDone == cargs.fn = "chunk_by_sentences" /\ cpc = "returned"

NonEmpty(x) == Len(x) > 0

\* the sentences of the call as the loop sees them: stripped, empty ones skipped
StrippedSentences ==
    SelectSeq([k \in 1..Len(cargs.sentences) |-> strip(cargs.sentences[k])],
              NonEmpty)

RECURSIVE Flatten(_)
Flatten(gs) == IF Len(gs) = 0 THEN <<>> ELSE Head(gs) \o Flatten(Tail(gs))

\* C16: every chunk is the sentences of one group joined by one space; it
\* is at most max_chunk_size long unless it is a single sentence longer than
\* max_chunk_size; a sentence longer than max_chunk_size is alone in its
\* chunk; and the groups are the sentences of the call, whole and in order
C16_SentenceChunkSize ==
    SentencesDone =>
        /\ Len(cret.chunks) = Len(cret.groups)
        /\ \A k \in 1..Len(cret.groups) :
               LET g == cret.groups[k]
                   c == cret.chunks[k]
               IN  /\ Len(g) >= 1
                   /\ c = Join(g, <<" ">>)
                   /\ \/ Len(c) <= cargs.max_chunk_size
                      \/ Len(g) = 1 /\ Len(g[1]) > cargs.max_chunk_size
                   /\ \A j \in 1..Len(g) :
                          Len(g[j]) > cargs.max_chunk_size => Len(g) = 1
        /\ ~IsBlank(cargs.text) => Flatten(cret.groups) = StrippedSentences

\* a sentence longer than max_chunk_size emitted between two chunks within it
C16_Witness ==
    /\ SentencesDone
    /\ cargs.max_chunk_size >= 1
    /\ Len(cret.chunks) = 3
    /\ Len(cret.chunks[1]) <= cargs.max_chunk_size
    /\ Len(cret.chunks[2]) > cargs.max_chunk_size
    /\ Len(cret.chunks[3]) <= cargs.max_chunk_size


\* ---------------------------------------------------------------------
\* The dispatcher chunk(text, strategy)
\* ---------------------------------------------------------------------

DispatchDone == cargs.fn = "chunk" /\ cpc \in {"returned", "raised"}

\* C17: chunk(text, strategy) raises ValueError exactly when the tag is not
\* 'fixed', 'sentence' or 'paragraph', and has then built no chunk; with one
\* of the three tags a text that is empty or all whitespace returns the
\* empty list and raises nothing
C17_DispatchInvalidStrategy ==
    DispatchDone =>
        /\ cret.kind = "raised" <=>
               cargs.strategy \notin {"fixed", "sentence", "paragraph"}
        /\ cret.kind = "raised" =>
               /\ cret.exc = "ValueError"
               /\ cret.chunks = <<>> /\ cret.groups = <<>> /\ visited = <<>>
        /\ cret.kind # "raised" => cret.kind = "returned" /\ cret.exc = "none"
        /\ (cargs.strategy \in {"fixed", "sentence", "paragraph"}
            /\ IsBlank(cargs.text)) =>
               cret.kind = "returned" /\ cret.chunks = <<>>

\* an unknown tag with a text that the three strategies would chunk
C17_Witness ==
    /\ DispatchDone
    /\ cargs.strategy = "Fixed"
    /\ ~IsBlank(cargs.text)
    /\ cret.kind = "raised"


\* ---------------------------------------------------------------------
\* Counting
\* ---------------------------------------------------------------------

\* C18: get_chunk_count leaves the table alone; when it returns, it returns
\* the number of rows whose filename is the string it was given, whatever
\* that string is, and the number of all rows when it was given none
C18_CountByFilename ==
    lastOp.op = "get_chunk_count" =>
        /\ table = lastOp.before
        /\ lastOp.exc = "none" =>
               lastOp.ret =
                   IF lastOp.arg = None THEN Len(lastOp.before)
                   ELSE Cardinality({k \in 1..Len(lastOp.before) :
                                       lastOp.before[k].filename = lastOp.arg})


\* ---------------------------------------------------------------------
\* Rate limiting in generate_batch
\* ---------------------------------------------------------------------

\* the rate-limiting sleep that follows chunk i has been taken
DelayTaken(i) ==
    \E k \in 1..Len(sleeps) :
        sleeps[k] = [kind |-> "delay", chunk |-> i, dur |-> delay]

\* C19: with delay > 0, every chunk the loop is done with, its vector
\* returned by generate_single or replaced by the zero vector, has been
\* followed by a sleep of delay; so the sleep precedes the next chunk's call
C19_DelayAfterEveryChunk ==
    delay > 0 => \A i \in 1..Len(embeddings) : DelayTaken(i)


\* ---------------------------------------------------------------------
\* Order of the phases of process_document
\* ---------------------------------------------------------------------

\* the step was a store call that failed: it raised, or a fault was injected
StoreCallFailed ==
    lastOp' # lastOp /\ (lastOp'.exc # "none" \/ lastOp'.fault # 0)

\* C20: the phases started so far are a prefix of ExtractText, Chunk, Embed,
\* Persist, Done, so each is started at most once and in that order; a run
\* is failed exactly when an exception reached the caller; a failed store
\* call fails the run at once; a failed run takes no further step, has not
\* reached Done and has success = false; and a run that failed in ExtractText
\* or Chunk has made no embedding call and no store operation
C20_PhaseOrder ==
    /\ [](/\ Len(phases) <= Len(AllPhases)
          /\ \A k \in 1..Len(phases) : phases[k] = AllPhases[k]
          /\ pc = "failed" <=> result.kind = "raised"
          /\ pc = "failed" => ~stats.success /\ "Done" \notin {phases[k] : k \in 1..Len(phases)}
          /\ (pc = "failed" /\ Len(phases) <= 2) =>
                 NoEmbeddingCall /\ NoStoreOperation
          /\ stats.success <=> (Len(phases) = Len(AllPhases)))
    /\ [][StoreCallFailed => pc' = "failed"]_vars
    /\ [][pc = "failed" => UNCHANGED vars]_vars

\* a Persist that failed in get_chunk_count, after the save
C20_Witness ==
    /\ pc = "failed"
    /\ phases = <<"ExtractText", "Chunk", "Embed", "Persist">>
    /\ lastOp.op = "get_chunk_count" /\ lastOp.exc # "none"
    /\ stats.chunks_saved > 0
    /\ ~stats.success


\* ---------------------------------------------------------------------
\* A run during an outage of the embedding service
\* ---------------------------------------------------------------------

\* generate_single is over for every chunk and every call of the run failed
Outage ==
    /\ Len(chunks) > 0
    /\ Len(singles) = Len(chunks)
    /\ \A i \in 1..Len(chunks) : AllFailed(outcomes[i])

\* what the statistics of a successful run are made of
StatsOfSuccess ==
    [filename |-> basename(file_path), strategy |-> strategy,
     text_length |-> Len(text), chunk_count |-> Len(chunks),
     chunks_saved |-> Len(chunks), success |-> TRUE]

\* C21: when every call of the embedding service failed, generate_batch has
\* returned a zero vector per chunk; the run can then fail only in a store
\* call; the batch it saves carries the zero vector for every chunk; and
\* when it returns, it returns success with as many rows saved as chunks,
\* all with the zero vector.  The statistics of any successful run are a
\* function of the path, the strategy, the text and the chunks alone
C21_OutageStillSucceeds ==
    /\ Outage =>
         /\ epc = "returned"
         /\ batchRet = [k \in 1..Len(chunks) |-> ZeroVector]
         /\ pc = "failed" => lastOp.exc # "none" /\ result.exc = lastOp.exc
         /\ SaveCalled =>
                submitted = [k \in 1..Len(chunks) |->
                               <<chunks[k], ZeroVector, basename(file_path), strategy>>]
         /\ pc = "returned" =>
                /\ stats.success /\ phases = AllPhases
                /\ stats.chunks_saved = stats.chunk_count
                /\ RowsOf(table0, submitted, table)
    /\ stats.success => stats = StatsOfSuccess /\ result.stats = stats

\* a successful run of two chunks none of whose six calls succeeded
C21_Witness ==
    /\ Outage
    /\ Len(chunks) = 2
    /\ pc = "returned" /\ stats.success
    /\ \A k \in 1..2 : table[Len(table0) + k].embedding = JsonDumps(ZeroVector)


\* ---------------------------------------------------------------------
\* What a run leaves in the store
\* ---------------------------------------------------------------------

\* the run is over without success: an exception was raised, or the
\* statistics came back with success false
EndedInFailure == RunEnded /\ (pc = "failed" \/ ~stats.success)

\* C22: a run that ended in failure has left the table as it found it,
\* also when it failed after save_chunks_batch had returned
C22_FailedRunLeavesNoRecord ==
    EndedInFailure => table = table0


\* the rows of tbl with this filename
CountOf(tbl, f) == Cardinality({k \in 1..Len(tbl) : tbl[k].filename = f})

\* C23: no step of a run removes or changes a row; a successful run has
\* appended one row per chunk to the rows it found, so the count for its
\* filename, which is what get_chunk_count returned, is the count before the
\* run plus the number of chunks, and the count of every other filename is
\* what it was
C23_RunOnlyAdds ==
    /\ [][/\ Len(table') >= Len(table)
          /\ \A k \in 1..Len(table) : table'[k] = table[k]]_vars
    /\ [](stats.success =>
            /\ RowsOf(table0, submitted, table)
            /\ Len(submitted) = Len(chunks)
            /\ CountOf(table, basename(file_path))
                   = CountOf(table0, basename(file_path)) + Len(chunks)
            /\ lastOp.op = "get_chunk_count"
            /\ lastOp.ret = CountOf(table, basename(file_path))
            /\ \A p \in Paths :
                   basename(p) # basename(file_path) =>
                       CountOf(table, basename(p)) = CountOf(table0, basename(p)))

\* a second successful run on doc.pdf: its one chunk is stored twice
C23_Witness ==
    /\ stats.success
    /\ basename(file_path) = "doc.pdf"
    /\ Len(chunks) = 1
    /\ CountOf(table0, "doc.pdf") = 1
    /\ CountOf(table, "doc.pdf") = 2
    /\ table[2].chunk_text = table[1].chunk_text


\* ---------------------------------------------------------------------
\* Connections of one store
\* ---------------------------------------------------------------------

OpenConnections == {i \in 1..Len(conns) : conns[i] = "open"}

\* C24: whatever the client calls, at most one connection opened by the
\* store is open, and after a close none is
C24_AtMostOneOpen ==
    /\ Cardinality(OpenConnections) <= 1
    /\ lastOp.op = "close" => OpenConnections = {}


\* ---------------------------------------------------------------------
\* Greedy packing of sentences
\* ---------------------------------------------------------------------

\* the length of the text of a pending chunk
JoinedLen(g) == Len(Join(g, <<" ">>))

\* C25: a sentence no longer than max_chunk_size is appended to the pending
\* chunk exactly when the pending text, one space and the sentence together
\* are at most max_chunk_size long, and the pending chunk is flushed before
\* it exactly when they are longer, however the pending chunk was started.
\* Read off the groups: a sentence inside a group fitted, and the first
\* sentence of a group did not fit the group before it (unless that is a
\* sentence longer than max_chunk_size, which leaves no pending chunk)
C25_GreedyPacking ==
    SentencesDone =>
        \A k \in 1..Len(cret.groups) :
            LET g == cret.groups[k]
            IN  /\ \A j \in 2..Len(g) :
                       JoinedLen(SubSeq(g, 1, j - 1)) + 1 + Len(g[j])
                           <= cargs.max_chunk_size
                /\ ( /\ k > 1
                     /\ Len(g[1]) <= cargs.max_chunk_size
                     /\ JoinedLen(cret.groups[k - 1]) <= cargs.max_chunk_size )
                   => JoinedLen(cret.groups[k - 1]) + 1 + Len(g[1])
                          > cargs.max_chunk_size


\* ---------------------------------------------------------------------
\* Back-off between the attempts of generate_single
\* ---------------------------------------------------------------------

\* the waits tenacity has taken for chunk i, in order
Backoffs(i) ==
    SelectSeq(sleeps, LAMBDA e : e.kind = "backoff" /\ e.chunk = i)

\* C26: for every chunk the first wait is 2, every later wait is twice the
\* one before (the second is 4), no wait is longer than 10, and there is one
\* wait per failed attempt but the final one
C26_BackoffDoubles ==
    \A i \in 1..Len(calls) :
        LET w      == Backoffs(i)
            failed == Cardinality({k \in 1..Len(outcomes[i]) :
                                     outcomes[i][k] = "fail"})
            final  == IF i <= Len(singles) /\ singles[i].kind = "raised"
                      THEN 1 ELSE 0
        IN  /\ Len(w) = failed - final
            /\ Len(w) >= 1 => w[1].dur = 2
            /\ Len(w) >= 2 => w[2].dur = 4
            /\ \A k \in 1..(Len(w) - 1) : w[k + 1].dur = 2 * w[k].dur
            /\ \A k \in 1..Len(w) : w[k].dur <= 10

====
